---- MODULE Spec2Model ----
(***************************************************************************)
(* tiny-lang: the two tokenizers of the repository.                        *)
(*                                                                         *)
(*   lexer.rs  tokenize(): an ordered table of (regex, handler) rules,     *)
(*             scanned in table order at every cursor position.           *)
(*   main.rs   Lexer::next_token(): a hand-written byte scanner driven by  *)
(*             main()'s loop until it returns Token::EOF.                  *)
(*                                                                         *)
(* A source text is a sequence of one-character strings.  Offsets are      *)
(* 0-based as in the Rust code; At(s, k) reads the byte at offset k.       *)
(***************************************************************************)
EXTENDS Integers, Sequences, FiniteSets, TLC

VARIABLES lexer, source, pos, tokens, status, input, position, token, printed, mstatus

vars == <<lexer, source, pos, tokens, status, input, position, token, printed, mstatus>>

lexerVars == <<source, pos, tokens, status>>
mainVars == <<input, position, token, printed, mstatus>>

----------------------------------------------------------------------------
(* Characters and character classes *)

Lower == {"a", "b", "c", "d", "e", "f", "g", "h", "i", "j", "k", "l", "m",
          "n", "o", "p", "q", "r", "s", "t", "u", "v", "w", "x", "y", "z"}

Upper == {"A", "B", "C", "D", "E", "F", "G", "H", "I", "J", "K", "L", "M",
          "N", "O", "P", "Q", "R", "S", "T", "U", "V", "W", "X", "Y", "Z"}

Digit == {"0", "1", "2", "3", "4", "5", "6", "7", "8", "9"}

\* the ASCII characters 32..126 in code order (code 96 is written by name)
Printable ==
    << " ", "!", "\"", "#", "$", "%", "&", "'", "(", ")", "*", "+", ",", "-", ".", "/",
       "0", "1", "2", "3", "4", "5", "6", "7", "8", "9", ":", ";", "<", "=", ">", "?",
       "@", "A", "B", "C", "D", "E", "F", "G", "H", "I", "J", "K", "L", "M", "N", "O",
       "P", "Q", "R", "S", "T", "U", "V", "W", "X", "Y", "Z", "[", "\\", "]", "^", "_",
       "BACKTICK", "a", "b", "c", "d", "e", "f", "g", "h", "i", "j", "k", "l", "m", "n", "o",
       "p", "q", "r", "s", "t", "u", "v", "w", "x", "y", "z", "{", "|", "}", "~" >>

Control == {"\t", "\n", "\r", "\f"}

Char == {Printable[i] : i \in 1..Len(Printable)} \cup Control

\* [_a-zA-Z] and [_a-zA-Z0-9]
IdentStart == Lower \cup Upper \cup {"_"}
IdentPart == IdentStart \cup Digit

\* \s of the regex crate restricted to ASCII, and u8::is_ascii_whitespace
Whitespace == {" ", "\t", "\n", "\r", "\f"}

\* (ch as u32), (byte as i64): the code of a character
Code(c) ==
    CASE c = "\t" -> 9
      [] c = "\n" -> 10
      [] c = "\f" -> 12
      [] c = "\r" -> 13
      [] OTHER -> 31 + (CHOOSE i \in 1..Len(Printable) : Printable[i] = c)

\* u32::to_string: decimal digits of a natural number
DigitChar(d) == Printable[17 + d]

RECURSIVE to_string(_)
to_string(n) ==
    IF n < 10 THEN <<DigitChar(n)>>
    ELSE Append(to_string(n \div 10), DigitChar(n % 10))

\* str::parse::<i64> on a digit run
DigitVal(c) == Code(c) - 48

RECURSIVE ParseInt(_)
ParseInt(ds) ==
    IF Len(ds) = 0 THEN 0
    ELSE 10 * ParseInt(SubSeq(ds, 1, Len(ds) - 1)) + DigitVal(ds[Len(ds)])

Min(S) == CHOOSE x \in S : \A y \in S : x <= y

\* the byte at 0-based offset k, "" past the end
At(s, k) == IF k >= 0 /\ k < Len(s) THEN s[k + 1] ELSE ""

\* s[from..to] with 0-based offsets, to exclusive
Slice(s, from, to) == SubSeq(s, from + 1, to)

\* does w occur in s starting exactly at offset k
StartsWithAt(s, k, w) ==
    /\ k + Len(w) <= Len(s)
    /\ \A j \in 1..Len(w) : s[k + j] = w[j]

\* end (exclusive) of the maximal run of characters of class cls starting at k
RECURSIVE RunEnd(_, _, _)
RunEnd(s, k, cls) ==
    IF k < Len(s) /\ s[k + 1] \in cls THEN RunEnd(s, k + 1, cls) ELSE k

\* end (exclusive) of the maximal run of characters outside stop starting at k
RECURSIVE RunUntil(_, _, _)
RunUntil(s, k, stop) ==
    IF k < Len(s) /\ s[k + 1] \notin stop THEN RunUntil(s, k + 1, stop) ELSE k

----------------------------------------------------------------------------
(* lexer.rs: tokens *)

Tok(kind) == [kind |-> kind, value |-> <<>>]
TokV(kind, value) == [kind |-> kind, value |-> value]

EndOfInput == Tok("EndOfInput")

----------------------------------------------------------------------------
(* lexer.rs: the regex engine, by what Regex::find returns *)

Literal(text) == [kind |-> "literal", text |-> text]
Class(kind) == [kind |-> kind, text |-> <<>>]

\* first offset j >= k at which "*/" starts, or -1: the lazy .*? of the comment regex
RECURSIVE CommentClose(_, _)
CommentClose(s, k) ==
    IF k + 2 > Len(s) THEN -1
    ELSE IF StartsWithAt(s, k, <<"*", "/">>) THEN k
    ELSE CommentClose(s, k + 1)

\* '([^'\n]|\\n|\\\\)' anchored at k: alternatives tried left to right
CharacterEnd(s, k) ==
    IF At(s, k) # "'" THEN -1
    ELSE IF At(s, k + 1) \notin {"", "'", "\n"} /\ At(s, k + 2) = "'" THEN k + 3
    ELSE IF StartsWithAt(s, k + 1, <<"\\", "n", "'">>) THEN k + 4
    ELSE IF StartsWithAt(s, k + 1, <<"\\", "\\", "'">>) THEN k + 4
    ELSE -1

\* end (exclusive) of the match of re that starts exactly at offset k, or -1
MatchEnd(re, s, k) ==
    CASE re.kind = "literal" ->
            IF StartsWithAt(s, k, re.text) THEN k + Len(re.text) ELSE -1
      [] re.kind = "identifier" ->
            IF At(s, k) \in IdentStart THEN RunEnd(s, k + 1, IdentPart) ELSE -1
      [] re.kind = "integer" ->
            IF At(s, k) \in Digit THEN RunEnd(s, k + 1, Digit) ELSE -1
      [] re.kind = "string" ->
            IF At(s, k) = "\"" /\ RunUntil(s, k + 1, {"\""}) < Len(s)
            THEN RunUntil(s, k + 1, {"\""}) + 1
            ELSE -1
      [] re.kind = "character" -> CharacterEnd(s, k)
      [] re.kind = "comment" ->
            IF StartsWithAt(s, k, <<"/", "*">>) /\ CommentClose(s, k + 2) # -1
            THEN CommentClose(s, k + 2) + 2
            ELSE -1
      [] re.kind = "whitespace" ->
            IF At(s, k) \in Whitespace THEN RunEnd(s, k + 1, Whitespace) ELSE -1

NoMatch == [found |-> FALSE, start |-> -1, end |-> -1]

\* Regex::find(s): the leftmost match anywhere in s
Find(re, s) ==
    LET starts == {k \in 0..(Len(s) - 1) : MatchEnd(re, s, k) # -1}
    IN  IF starts = {} THEN NoMatch
        ELSE [found |-> TRUE, start |-> Min(starts), end |-> MatchEnd(re, s, Min(starts))]

\* Match::as_str
AsStr(s, mat) == Slice(s, mat.start, mat.end)

----------------------------------------------------------------------------
(* lexer.rs: create_lexer, the rule table in priority order *)

Default(tok, value) == [kind |-> "Default", token |-> Tok(tok), value |-> value]
Handler(kind) == [kind |-> kind, token |-> Tok("none"), value |-> <<>>]

RegexPattern(regex, handler) == [regex |-> regex, handler |-> handler]

\* a fixed rule whose handler carries the empty string as its value
Fixed_emptyValue(tok, text) == RegexPattern(Literal(text), Default(tok, << >>))

Fixed(tok, text) == RegexPattern(Literal(text), Default(tok, text))

KeywordRules ==
    << Fixed("KeywordPrint", <<"p", "r", "i", "n", "t">>),
       Fixed("KeywordPutc", <<"p", "u", "t", "c">>),
       Fixed("KeywordWhile", <<"w", "h", "i", "l", "e">>),
       Fixed("KeywordIf", <<"i", "f">>),
       Fixed("KeywordElse", <<"e", "l", "s", "e">>) >>

LiteralRules ==
    << RegexPattern(Class("identifier"), Handler("Identifier")),
       RegexPattern(Class("integer"), Handler("Integer")),
       RegexPattern(Class("string"), Handler("String")),
       RegexPattern(Class("character"), Handler("Character")) >>

TriviaRules ==
    << RegexPattern(Class("comment"), Handler("Skip")),
       RegexPattern(Class("whitespace"), Handler("Skip")) >>

BracketRules ==
    << Fixed("OpenParen", <<"(">>),
       Fixed("CloseParen", <<")">>),
       Fixed("OpenBrace", <<"{">>),
       Fixed("CloseBrace", <<"}">>) >>

\* the operator rules with each one-character operator ahead of the
\* two-character operators it begins
OperatorRules_prefixFirst ==
    << Fixed("OpAssign", <<"=">>),
       Fixed("OpNot", <<"!">>),
       Fixed("OpEqual", <<"=", "=">>),
       Fixed("OpNotEqual", <<"!", "=">>),
       Fixed("OpLess", <<"<">>),
       Fixed("OpLessEqual", <<"<", "=">>),
       Fixed("OpGreater", <<">">>),
       Fixed("OpGreaterEqual", <<">", "=">>),
       Fixed("OpAnd", <<"&", "&">>),
       Fixed("OpOr", <<"|", "|">>) >>

OperatorRules ==
    << Fixed("OpEqual", <<"=", "=">>),
       Fixed("OpNotEqual", <<"!", "=">>),
       Fixed("OpAssign", <<"=">>),
       Fixed("OpNot", <<"!">>),
       Fixed("OpLessEqual", <<"<", "=">>),
       Fixed("OpLess", <<"<">>),
       Fixed("OpGreaterEqual", <<">", "=">>),
       Fixed("OpGreater", <<">">>),
       Fixed("OpAnd", <<"&", "&">>),
       Fixed("OpOr", <<"|", "|">>) >>

PunctuationRules ==
    << Fixed("Semicolon", <<";">>),
       Fixed("Comma", <<",">>),
       Fixed("OpAdd", <<"+">>),
       Fixed("OpSubtract", <<"-">>),
       Fixed("OpDivide", <<"/">>),
       Fixed("OpMultiply", <<"*">>),
       Fixed("OpMod", <<"%">>) >>

\* the table with the identifier rule ahead of the keyword rules
patterns_identifierFirst ==
    LiteralRules \o KeywordRules \o TriviaRules \o BracketRules
        \o OperatorRules \o PunctuationRules

patterns ==
    KeywordRules \o LiteralRules \o TriviaRules \o BracketRules
        \o OperatorRules \o PunctuationRules

----------------------------------------------------------------------------
(* lexer.rs: Lexer methods, as functions of the source and the cursor *)

\* &self.source[self.pos..]
remainder(src, p) == Slice(src, p, Len(src))

\* at_eof that reports the end one byte early
at_eof_early(src, p) == p + 1 >= Len(src)

at_eof(src, p) == p >= Len(src)

\* the escape table of char_literal_to_number; -1 is the panic arm
Escape(rest) ==
    CASE rest = <<"n">> -> 10
      [] rest = <<"t">> -> 9
      [] rest = <<"r">> -> 13
      [] rest = <<"\\">> -> 92
      [] rest = <<"'">> -> 39
      [] rest = <<"0">> -> 0
      [] OTHER -> -1

\* the code of the literal s (quotes included), -1 when it panics
char_literal_to_number(s) ==
    LET inner == Slice(s, 1, Len(s) - 1)
    IN  IF At(inner, 0) = "\\" THEN Escape(Slice(inner, 1, Len(inner)))
        ELSE Code(inner[1])

\* what a handler does: advance_n(advance), push of each token, or a panic
Effect(n, toks) == [advance |-> n, push |-> toks, panic |-> FALSE]
UnknownEscape == [advance |-> 0, push |-> << >>, panic |-> TRUE]

\* the String handler that keeps the quotes in the payload
handle_string_keepsQuotes(match_str) ==
    Effect(Len(match_str), <<TokV("String", match_str)>>)

\* the String handler on the matched text: strip the quotes, push, advance
handle_string(match_str) ==
    LET inner == Slice(match_str, 1, Len(match_str) - 1)
    IN  Effect(Len(inner) + 2, <<TokV("String", inner)>>)

\* handle_pattern: every handler but Default re-runs regex.find on the remainder
handle_pattern(handler, regex, rem) ==
    LET mat == Find(regex, rem)
        match_str == AsStr(rem, mat)
    IN  CASE handler.kind = "Default" ->
                Effect(Len(handler.value), <<handler.token>>)
          [] handler.kind = "Skip" ->
                IF mat.found THEN Effect(mat.end, << >>) ELSE Effect(0, << >>)
          [] handler.kind = "String" ->
                IF mat.found THEN handle_string(match_str) ELSE Effect(0, << >>)
          [] handler.kind = "Character" ->
                IF ~mat.found THEN Effect(0, << >>)
                ELSE IF char_literal_to_number(match_str) = -1 THEN UnknownEscape
                ELSE Effect(Len(match_str) + 2,
                            <<TokV("Integer", to_string(char_literal_to_number(match_str)))>>)
          [] handler.kind = "Identifier" ->
                IF mat.found
                THEN Effect(Len(match_str), <<TokV("Indentifier", match_str)>>)
                ELSE Effect(0, << >>)
          [] handler.kind = "Integer" ->
                IF mat.found
                THEN Effect(Len(match_str), <<TokV("Integer", match_str)>>)
                ELSE Effect(0, << >>)

\* the for loop without the test mat.start() == 0
match_info_unanchored(rem) ==
    LET hits == {i \in 1..Len(patterns) : Find(patterns[i].regex, rem).found}
    IN  IF hits = {} THEN 0 ELSE Min(hits)

\* the for loop of tokenize: the first rule whose leftmost match in the
\* remainder starts at offset 0, 0 when there is none
match_info(rem) ==
    LET hits == {i \in 1..Len(patterns) : Find(patterns[i].regex, rem).start = 0}
    IN  IF hits = {} THEN 0 ELSE Min(hits)

\* tokenize run to its end from cursor p with toks already pushed
RECURSIVE tokenize_from(_, _, _)
tokenize_from(src, p, toks) ==
    IF at_eof(src, p)
    THEN [status |-> "returned", pos |-> p, tokens |-> Append(toks, EndOfInput)]
    ELSE LET rem == remainder(src, p)
             i == match_info(rem)
         IN  IF i = 0 THEN [status |-> "unrecognized", pos |-> p, tokens |-> toks]
             ELSE LET e == handle_pattern(patterns[i].handler, patterns[i].regex, rem)
                  IN  IF e.panic
                      THEN [status |-> "unknown_escape", pos |-> p, tokens |-> toks]
                      ELSE tokenize_from(src, p + e.advance, toks \o e.push)

tokenize(src) == tokenize_from(src, 0, << >>)

----------------------------------------------------------------------------
(* main.rs: tokens *)

MTok(kind) == [kind |-> kind, text |-> <<>>, num |-> 0]
MText(kind, text) == [kind |-> kind, text |-> text, num |-> 0]
MInteger(n) == [kind |-> "Integer", text |-> <<>>, num |-> n]

EOF == MTok("EOF")
INVALID == MTok("INVALID")

\* the value of main's variable before the first call
NoToken == MTok("none")

\* the two-byte operators, tried in this order before anything else
OPS ==
    << [pat |-> <<"=", "=">>, mk |-> "OpEqual"],
       [pat |-> <<"!", "=">>, mk |-> "OpNotEqual"],
       [pat |-> <<"<", "=">>, mk |-> "OpLessEqual"],
       [pat |-> <<">", "=">>, mk |-> "OpGreaterEqual"],
       [pat |-> <<"&", "&">>, mk |-> "OpAnd"],
       [pat |-> <<"|", "|">>, mk |-> "OpOr"] >>

\* the final match of next_token on the byte b
SingleByte(b) ==
    CASE b = "," -> "Comma"
      [] b = "(" -> "LeftParen"
      [] b = ")" -> "RightParen"
      [] b = ";" -> "Semicolon"
      [] b = "=" -> "OpAssign"
      [] b = "-" -> "OpSubtract"
      [] b = "+" -> "OpAdd"
      [] b = ">" -> "OpGreater"
      [] b = "<" -> "OpLess"
      [] b = "*" -> "OpMultiply"
      [] b = "/" -> "OpDivide"
      [] b = "{" -> "LeftBrace"
      [] b = "}" -> "RightBrace"
      [] b = "!" -> "OpNot"
      [] b = "%" -> "OpMod"
      [] OTHER -> "INVALID"

\* the keyword match of next_token on the identifier text
Keyword(ident_val) ==
    CASE ident_val = <<"p", "r", "i", "n", "t">> -> MTok("KeywordPrint")
      [] ident_val = <<"p", "u", "t", "c">> -> MTok("KeywordPutc")
      [] ident_val = <<"i", "f">> -> MTok("KeywordIf")
      [] ident_val = <<"e", "l", "s", "e">> -> MTok("KeywordElse")
      [] ident_val = <<"w", "h", "i", "l", "e">> -> MTok("KeywordWhile")
      [] OTHER -> MText("Identifier", ident_val)

----------------------------------------------------------------------------
(* main.rs: Lexer methods, as functions of the input and the cursor *)

\* peek that gives None one byte early, at the last byte of the buffer
peek_early(inp, p) == IF p + 1 < Len(inp) THEN At(inp, p) ELSE ""

\* the byte at the cursor, "" for None
peek(inp, p) == At(inp, p)

\* the cursor after advance()
advance(inp, p) == IF p < Len(inp) THEN p + 1 ELSE p

\* match_bytes succeeds; the cursor then moves by Len(bytes)
match_bytes(inp, p, bytes) == StartsWithAt(inp, p, bytes)

skip_whitespace(inp, p) == RunEnd(inp, p, Whitespace)

\* the inner loop stopping at the first star, whether or not a slash follows
scan_comment_toStar(inp, p) == RunUntil(inp, p, {"*"})

\* the inner loop of skip_comments, entered after the opening of a comment
RECURSIVE scan_comment(_, _)
scan_comment(inp, p) ==
    IF peek(inp, p) = "" THEN p
    ELSE IF match_bytes(inp, p, <<"*", "/">>) THEN p + 2
    ELSE scan_comment(inp, advance(inp, p))

RECURSIVE skip_comments(_, _)
skip_comments(inp, p) ==
    IF match_bytes(inp, p, <<"/", "*">>)
    THEN skip_comments(inp, scan_comment(inp, p + 2))
    ELSE p

\* skip_trivia without its loop: one pass of whitespace, comments, whitespace
skip_trivia_once(inp, p) ==
    skip_whitespace(inp, skip_comments(inp, skip_whitespace(inp, p)))

RECURSIVE skip_trivia(_, _)
skip_trivia(inp, p) ==
    LET after == skip_whitespace(inp, skip_comments(inp, skip_whitespace(inp, p)))
    IN  IF after = p THEN p ELSE skip_trivia(inp, after)

\* read_string, entered after the opening quote: the slice it takes is
\* input[from..to]; the slice panics when from > to
read_string(inp, p) ==
    LET stop == RunUntil(inp, p, {"\""})
        after == advance(inp, stop)
    IN  [from |-> p, to |-> after - 1, position |-> after,
         panic |-> p > after - 1 \/ after - 1 > Len(inp),
         s |-> Slice(inp, p, after - 1)]

\* read_literal, entered after the opening quote
read_literal(inp, p) ==
    LET b == peek(inp, p)
        none(q) == [some |-> FALSE, byte |-> 0, position |-> q]
        close(q, byte) ==
            IF peek(inp, q) # "'" THEN none(q)
            ELSE [some |-> TRUE, byte |-> byte, position |-> advance(inp, q)]
    IN  IF b = "" THEN none(p)
        ELSE IF b = "\\"
        THEN LET e == peek(inp, p + 1)
             IN  CASE e = "n" -> close(p + 2, 10)
                   [] e = "t" -> close(p + 2, 9)
                   [] e = "r" -> close(p + 2, 13)
                   [] e = "\\" -> close(p + 2, 92)
                   [] e = "'" -> close(p + 2, 39)
                   [] OTHER -> none(p + 1)
        ELSE IF b \in {"\n", "\r", "'"} THEN none(p)
        ELSE close(p + 1, Code(b))

\* read_identifier that stops at a digit
read_identifier_noDigits(inp, p) ==
    LET stop == RunEnd(inp, p, IdentStart)
    IN  [position |-> stop, s |-> Slice(inp, p, stop)]

read_identifier(inp, p) ==
    LET stop == RunEnd(inp, p, IdentPart)
    IN  [position |-> stop, s |-> Slice(inp, p, stop)]

read_number(inp, p) ==
    LET stop == RunEnd(inp, p, Digit)
    IN  [position |-> stop, num |-> ParseInt(Slice(inp, p, stop))]

\* the first entry of OPS that matches at p, 0 when none does
FirstOp(inp, p) ==
    LET hits == {i \in 1..Len(OPS) : match_bytes(inp, p, OPS[i].pat)}
    IN  IF hits = {} THEN 0 ELSE Min(hits)

Returned(tok, p) == [token |-> tok, position |-> p, panic |-> FALSE]
Panicked(p) == [token |-> NoToken, position |-> p, panic |-> TRUE]

\* one call of next_token with the cursor at p0
next_token(inp, p0) ==
    LET p == skip_trivia(inp, p0)
        b == peek(inp, p)
    IN  IF b = "" THEN Returned(EOF, p)
        ELSE IF FirstOp(inp, p) # 0
        THEN Returned(MTok(OPS[FirstOp(inp, p)].mk), p + 2)
        ELSE IF match_bytes(inp, p, <<"\"">>)
        THEN LET r == read_string(inp, p + 1)
             IN  IF r.panic THEN Panicked(r.position)
                 ELSE Returned(MText("String", r.s), r.position)
        ELSE IF b \in IdentStart
        THEN LET r == read_identifier(inp, p)
             IN  Returned(Keyword(r.s), r.position)
        ELSE IF b \in Digit
        THEN LET r == read_number(inp, p)
             IN  Returned(MInteger(r.num), r.position)
        ELSE IF match_bytes(inp, p, <<"'">>)
        THEN LET r == read_literal(inp, p + 1)
             IN  IF r.some THEN Returned(MInteger(r.byte), r.position)
                 ELSE Returned(INVALID, r.position)
        ELSE Returned(MTok(SingleByte(b)), p + 1)

----------------------------------------------------------------------------------------------------------------------------------------
(* The inputs: every fragment and every pair of fragments, every           *)
(* concatenation of at most MaxFrags core bytes, and the example programs  *)
(* of the specification.                                                   *)

MaxFrags == 3

\* single bytes of every class the two lexers distinguish
Bytes ==
    {<<"i">>, <<"f">>, <<"x">>, <<"A">>, <<"n">>, <<"q">>, <<"t">>, <<"r">>,
       <<"0">>, <<"1">>, <<"_">>, <<"'">>, <<"\"">>, <<"\\">>, <<"=">>, <<"!">>,
       <<"<">>, <<">">>, <<"&">>, <<"|">>, <<"/">>, <<"*">>, <<" ">>, <<"\n">>,
       <<"@">>, <<"(">>, <<")">>, <<"{">>, <<"}">>, <<";">>, <<",">>, <<"+">>,
       <<"-">>, <<"%">> }

\* the bytes on which the lexers' choices turn
CoreBytes ==
    {<<"i">>, <<"f">>, <<"x">>, <<"0">>, <<"'">>, <<"\"">>, <<"\\">>,
       <<"=">>, <<"<">>, <<"&">>, <<"/">>, <<"*">>, <<" ">>, <<"@">> }

\* whole lexemes, and literals cut short or with a wrong escape
Lexemes ==
    {<<"i", "f">>, <<"e", "l", "s", "e">>, <<"w", "h", "i", "l", "e">>, <<"p", "r", "i", "n", "t">>,
       <<"p", "u", "t", "c">>, <<"=", "=">>, <<"!", "=">>, <<"<", "=">>,
       <<">", "=">>, <<"&", "&">>, <<"|", "|">>, <<"/", "*", "a", "*", "/">>,
       <<"\"", "h", "i", "\"">>, <<"\"", "h">>, <<"'", "A", "'">>, <<"'", "\\", "n", "'">>,
       <<"'", "\\", "t", "'">>, <<"'", "\\", "r", "'">>, <<"'", "\\", "\\", "'">>, <<"'", "\\", "'", "'">>,
       <<"'", "\\", "0", "'">>, <<"'", "\\", "q", "'">> }

Fragments == Bytes \cup Lexemes

Pairs == {f \o g : f \in Fragments \cup {<< >>}, g \in Fragments \cup {<< >>}}

Examples ==
    {<<"i", "f", "x">>,
       <<"/", "*", " ", "a", " ", "*", "/", " ", " ", " ", "/", "*", " ", "b", " ", "*", "/", "x">>,
       <<"i", "f", " ", "(", "x", " ", "<", " ", "1", "0", ")", " ", "{", " ", "p", "r", "i", "n", "t", " ", "x", ";", " ", "}">>,
       <<"/", "*", " ", "a">>,
       <<"\"", "\\", "\n", "\"">> }

RECURSIVE Concats(_)
Concats(n) ==
    IF n = 0 THEN {<< >>}
    ELSE Concats(n - 1) \cup {f \o s : f \in CoreBytes, s \in Concats(n - 1)}

Sources == Pairs \cup Concats(MaxFrags) \cup Examples

----------------------------------------------------------------------------
(* The state machine *)

Init ==
    /\ lexer \in {"lexer_rs", "main_rs"}
    /\ \E src \in Sources :
          IF lexer = "lexer_rs"
          THEN /\ source = src /\ pos = 0 /\ tokens = << >> /\ status = "running"
               /\ input = << >> /\ position = 0 /\ token = NoToken
               /\ printed = << >> /\ mstatus = "idle"
          ELSE /\ input = src /\ position = 0 /\ token = NoToken
               /\ printed = << >> /\ mstatus = "running"
               /\ source = << >> /\ pos = 0 /\ tokens = << >> /\ status = "idle"

\* the iteration with the table scanned in no fixed order: any rule whose
\* leftmost match starts at the cursor may be the one applied
TokenizeMatch_anyRule ==
    /\ lexer = "lexer_rs" /\ status = "running"
    /\ ~at_eof(source, pos)
    /\ \E i \in 1..Len(patterns) :
          LET rem == remainder(source, pos)
              e == handle_pattern(patterns[i].handler, patterns[i].regex, rem)
          IN  /\ Find(patterns[i].regex, rem).start = 0
              /\ pos' = pos + e.advance
              /\ tokens' = tokens \o e.push
              /\ status' = IF e.panic THEN "unknown_escape" ELSE status
    /\ UNCHANGED <<lexer, source, mainVars>>

\* tokenize: one iteration of the while loop in which a rule matched
TokenizeMatch ==
    /\ lexer = "lexer_rs" /\ status = "running"
    /\ ~at_eof(source, pos)
    /\ match_info(remainder(source, pos)) # 0
    /\ LET rem == remainder(source, pos)
           i == match_info(rem)
           e == handle_pattern(patterns[i].handler, patterns[i].regex, rem)
       IN  /\ pos' = pos + e.advance
           /\ tokens' = tokens \o e.push
           /\ status' = IF e.panic THEN "unknown_escape" ELSE status
    /\ UNCHANGED <<lexer, source, mainVars>>

\* the iteration without the panic: the unmatched byte is passed over
TokenizeUnrecognized_skipsByte ==
    /\ lexer = "lexer_rs" /\ status = "running"
    /\ ~at_eof(source, pos)
    /\ match_info(remainder(source, pos)) = 0
    /\ pos' = pos + 1
    /\ UNCHANGED <<lexer, source, status, tokens, mainVars>>

\* tokenize: one iteration in which no rule matched, the panic
TokenizeUnrecognized ==
    /\ lexer = "lexer_rs" /\ status = "running"
    /\ ~at_eof(source, pos)
    /\ match_info(remainder(source, pos)) = 0
    /\ status' = "unrecognized"
    /\ UNCHANGED <<lexer, source, pos, tokens, mainVars>>

\* tokenize: the loop has ended, EndOfInput is pushed and the tokens returned
TokenizeReturn ==
    /\ lexer = "lexer_rs" /\ status = "running"
    /\ at_eof(source, pos)
    /\ tokens' = Append(tokens, EndOfInput)
    /\ status' = "returned"
    /\ UNCHANGED <<lexer, source, pos, mainVars>>

\* main: one call of next_token that returns; main prints every token but EOF
NextToken ==
    /\ lexer = "main_rs" /\ mstatus = "running"
    /\ LET r == next_token(input, position)
       IN  /\ ~r.panic
           /\ position' = r.position
           /\ token' = r.token
           /\ printed' = IF r.token # EOF THEN Append(printed, r.token) ELSE printed
    /\ UNCHANGED <<lexer, input, mstatus, lexerVars>>

\* main: one call of next_token that panics
NextTokenPanic ==
    /\ lexer = "main_rs" /\ mstatus = "running"
    /\ LET r == next_token(input, position)
       IN  /\ r.panic
           /\ position' = r.position
    /\ mstatus' = "panic"
    /\ UNCHANGED <<lexer, input, token, printed, lexerVars>>

Next ==
    \/ TokenizeMatch
    \/ TokenizeUnrecognized
    \/ TokenizeReturn
    \/ NextToken
    \/ NextTokenPanic

Spec == Init /\ [][Next]_vars

\* the bytes of the inputs on which the driver loop of main is run to its end
DriverBytes == {"x", "0", " ", "\"", "/", "*"}

DriverInputs ==
    {s \in Concats(MaxFrags) : \A k \in 1..Len(s) : s[k] \in DriverBytes}

\* main: the lexer constructed on the bytes read from the file
DriverInit == Init /\ lexer = "main_rs" /\ input \in DriverInputs

\* main: the loop calls next_token again
DriverNext == NextToken \/ NextTokenPanic

\* main is sequential: while a call of next_token is possible, it is made
FairSpec == DriverInit /\ [][DriverNext]_vars /\ WF_vars(DriverNext)

----------------------------------------------------------------------------
(* Properties *)

\* the token the specification assigns to an identifier-shaped run
ReservedKind(run) ==
    CASE run = <<"i", "f">> -> "KeywordIf"
      [] run = <<"e", "l", "s", "e">> -> "KeywordElse"
      [] run = <<"w", "h", "i", "l", "e">> -> "KeywordWhile"
      [] run = <<"p", "r", "i", "n", "t">> -> "KeywordPrint"
      [] run = <<"p", "u", "t", "c">> -> "KeywordPutc"
      [] OTHER -> "Indentifier"

WordToken(run) ==
    IF ReservedKind(run) = "Indentifier" THEN TokV("Indentifier", run)
    ELSE Tok(ReservedKind(run))

\* the maximal identifier-shaped run that starts at offset p
IdentRunAt(src, p) == Slice(src, p, RunEnd(src, p, IdentPart))

InTokenize == lexer = "lexer_rs" /\ status = "running"
InMain == lexer = "main_rs" /\ mstatus = "running"

\* C1: in tokenize, when an identifier-shaped run starts at the cursor, the
\* step emits exactly one token for the whole maximal run: the keyword token
\* when the run is if, else, while, print or putc, an Identifier carrying the
\* run otherwise ("ifx" is one Identifier, never KeywordIf).
C1_KeywordIdentifierLaw ==
    [][ (InTokenize /\ At(source, pos) \in IdentStart)
        => /\ tokens' = Append(tokens, WordToken(IdentRunAt(source, pos)))
           /\ pos' = pos + Len(IdentRunAt(source, pos)) ]_vars

\* C2: on every input on which tokenize returns, each rule application
\* advances the cursor by exactly the length its pattern matched at the
\* cursor, the cursor never passes the end of the source, and it equals the
\* source length when EndOfInput is appended.
C2_Coverage ==
    [][ (InTokenize /\ tokenize(source).status = "returned")
        => /\ ~at_eof(source, pos) =>
                LET rem == remainder(source, pos)
                IN  pos' = pos + MatchEnd(patterns[match_info(rem)].regex, rem, 0)
           /\ pos' <= Len(source)
           /\ status' = "returned" => pos = Len(source) ]_vars

\* the decimal payload the specification gives for each escape letter
EscapePayload(e) ==
    CASE e = "n" -> <<"1", "0">>
      [] e = "t" -> <<"9">>
      [] e = "r" -> <<"1", "3">>
      [] e = "\\" -> <<"9", "2">>
      [] e = "'" -> <<"3", "9">>
      [] e = "0" -> <<"0">>

\* C3: once tokenize has ended on a source that is one character literal,
\* it has returned exactly one Integer token followed by EndOfInput: for
\* each of the six escapes the decoded code (10, 9, 13, 92, 39, 0), for one
\* ordinary character that character's code.
C3_CharacterEscapeLaw ==
    (lexer = "lexer_rs" /\ status # "running")
    => /\ \A e \in {"n", "t", "r", "\\", "'", "0"} :
            source = <<"'", "\\", e, "'">>
            => /\ status = "returned"
               /\ tokens = <<TokV("Integer", EscapePayload(e)), EndOfInput>>
       /\ (Len(source) = 3 /\ source[1] = "'" /\ source[3] = "'"
             /\ source[2] \notin {"'", "\\", "\n"})
            => /\ status = "returned"
               /\ tokens = <<TokV("Integer", to_string(Code(source[2]))), EndOfInput>>

\* the bytes that begin some token of the specification
SpecSingleBytes ==
    {"+", "-", "*", "/", "%", "<", ">", "=", "!", "(", ")", "{", "}", ";", ","}

\* no rule of the specification accepts the byte at offset p
NoRuleAccepts(inp, p) ==
    /\ p < Len(inp)
    /\ At(inp, p) \notin IdentStart \cup Digit \cup Whitespace \cup SpecSingleBytes
                             \cup {"\"", "'"}
    /\ ~StartsWithAt(inp, p, <<"&", "&">>)
    /\ ~StartsWithAt(inp, p, <<"|", "|">>)

\* a character literal of the specification starts at offset p
WellFormedCharLiteral(inp, p) ==
    /\ At(inp, p) = "'"
    /\ \/ At(inp, p + 1) \notin {"", "\n", "'", "\\"} /\ At(inp, p + 2) = "'"
       \/ /\ At(inp, p + 1) = "\\"
          /\ At(inp, p + 2) \in {"n", "t", "r", "\\", "'", "0"}
          /\ At(inp, p + 3) = "'"

MalformedCharLiteral(inp, p) ==
    At(inp, p) = "'" /\ ~WellFormedCharLiteral(inp, p)

\* C4: in the main.rs lexer, when next_token meets a byte that no rule
\* accepts or a malformed character literal, tokenization ends with an
\* error: no token is returned for it and nothing more is printed.
C4_FailureIsTerminal ==
    [][ (InMain /\ LET p == skip_trivia(input, position)
                   IN  NoRuleAccepts(input, p) \/ MalformedCharLiteral(input, p))
        => /\ mstatus' # "running"
           /\ token' = token
           /\ printed' = printed ]_vars

\* a double quote at offset p with no double quote after it
UnterminatedStringAt(inp, p) ==
    /\ At(inp, p) = "\""
    /\ \A k \in (p + 1)..(Len(inp) - 1) : At(inp, k) # "\""

\* C5: in the main.rs lexer, when next_token is at an opening double quote
\* that is never closed, the call reports a failure and returns no String
\* token.
C5_UnterminatedString ==
    [][ (InMain /\ UnterminatedStringAt(input, skip_trivia(input, position)))
        => /\ mstatus' # "running"
           /\ token' = token
           /\ printed' = printed ]_vars

\* no rule's pattern matches starting exactly at offset 0 of rem
NoRuleMatchesAt(rem) ==
    \A i \in 1..Len(patterns) : MatchEnd(patterns[i].regex, rem, 0) = -1

\* C6: in tokenize, when the cursor is before the end of the source and no
\* rule's pattern matches starting exactly at the cursor, the step fails with
\* the unrecognized-token error at that position: the cursor does not move,
\* nothing is pushed, and the failure is final (no EndOfInput, no return).
C6_FailureLaw ==
    [][ /\ (InTokenize /\ ~at_eof(source, pos)
              /\ NoRuleMatchesAt(remainder(source, pos)))
           => (status' = "unrecognized" /\ pos' = pos /\ tokens' = tokens)
        /\ status = "unrecognized"
           => (status' = "unrecognized" /\ tokens' = tokens) ]_vars

\* tokenize has failed at a lone & after having pushed tokens
C6_Witness ==
    /\ lexer = "lexer_rs" /\ status = "unrecognized"
    /\ At(source, pos) = "&"
    /\ Len(tokens) > 0
    /\ \A i \in 1..Len(tokens) : tokens[i] # EndOfInput

\* a character literal with an escape letter outside n, t, r, \, ', 0
UnknownEscapeAt(src, p) ==
    /\ At(src, p) = "'"
    /\ At(src, p + 1) = "\\"
    /\ At(src, p + 2) \notin {"", "n", "t", "r", "\\", "'", "0"}
    /\ At(src, p + 3) = "'"

\* C7: in tokenize, a character literal at the cursor whose backslash is
\* followed by a character outside n, t, r, \, ', 0 makes the call fail with
\* the UnknownEscape error, and no token is pushed for it.
C7_UnknownEscape ==
    [][ (InTokenize /\ UnknownEscapeAt(source, pos))
        => (status' = "unknown_escape" /\ tokens' = tokens) ]_vars

\* the two-character operator that starts at offset p, "" when none does
TwoCharOpAt(s, p) ==
    CASE StartsWithAt(s, p, <<"=", "=">>) -> "OpEqual"
      [] StartsWithAt(s, p, <<"!", "=">>) -> "OpNotEqual"
      [] StartsWithAt(s, p, <<"<", "=">>) -> "OpLessEqual"
      [] StartsWithAt(s, p, <<">", "=">>) -> "OpGreaterEqual"
      [] StartsWithAt(s, p, <<"&", "&">>) -> "OpAnd"
      [] StartsWithAt(s, p, <<"|", "|">>) -> "OpOr"
      [] OTHER -> ""

\* C8: in both lexers, when the text at the cursor begins with ==, !=, <=,
\* >=, && or ||, the step emits exactly the two-character operator token of
\* that kind and advances the cursor by 2; the token of the one-character
\* prefix is not emitted there.
C8_OperatorPrecedence ==
    [][ /\ (InTokenize /\ TwoCharOpAt(source, pos) # "")
           => /\ tokens' = Append(tokens, Tok(TwoCharOpAt(source, pos)))
              /\ pos' = pos + 2
              /\ status' = "running"
        /\ (InMain /\ TwoCharOpAt(input, position) # "")
           => /\ token' = MTok(TwoCharOpAt(input, position))
              /\ position' = position + 2
              /\ printed' = Append(printed, token')
              /\ mstatus' = "running" ]_vars

\* tokenize has just emitted OpLessEqual for a <= that another = follows
C8_Witness ==
    /\ lexer = "lexer_rs"
    /\ pos >= 2
    /\ StartsWithAt(source, pos - 2, <<"<", "=", "=">>)
    /\ Len(tokens) > 0
    /\ tokens[Len(tokens)] = Tok("OpLessEqual")

\* the rules whose pattern matches starting exactly at offset 0 of rem
AnchoredRules(rem) ==
    {i \in 1..Len(patterns) : MatchEnd(patterns[i].regex, rem, 0) # -1}

\* C9: in tokenize, at every cursor position where some rule's pattern
\* matches starting exactly at the cursor, the step applies the lowest-index
\* such rule, whatever later rules would match and whatever occurs after the
\* cursor: the cursor and the tokens change as that rule's handler dictates.
C9_FirstMatchByPriority ==
    [][ (InTokenize /\ ~at_eof(source, pos)
           /\ AnchoredRules(remainder(source, pos)) # {})
        => LET rem == remainder(source, pos)
               i == Min(AnchoredRules(rem))
               e == handle_pattern(patterns[i].handler, patterns[i].regex, rem)
           IN  /\ pos' = pos + e.advance
               /\ tokens' = tokens \o e.push
               /\ status' = IF e.panic THEN "unknown_escape" ELSE "running" ]_vars

\* the identifier rule was applied to "xif" although the if rule, earlier in
\* the table, has an occurrence after the cursor
C9_Witness ==
    /\ lexer = "lexer_rs"
    /\ StartsWithAt(source, 0, <<"x", "i", "f">>)
    /\ pos = 3
    /\ tokens = <<TokV("Indentifier", <<"x", "i", "f">>)>>

\* C10: every token sequence tokenize returns ends with EndOfInput and holds
\* it nowhere else; EndOfInput is pushed only by the return, with the cursor
\* at or past the end of the source; the empty source gives EndOfInput alone.
C10_EndOfInput ==
    lexer = "lexer_rs"
    => /\ \A i \in 1..Len(tokens) :
            tokens[i] = EndOfInput
            => (i = Len(tokens) /\ status = "returned" /\ pos >= Len(source))
       /\ status = "returned"
            => (Len(tokens) > 0 /\ tokens[Len(tokens)] = EndOfInput)
       /\ (status = "returned" /\ source = << >>) => tokens = <<EndOfInput>>

\* tokenize has returned three tokens and EndOfInput
C10_Witness ==
    /\ lexer = "lexer_rs" /\ status = "returned"
    /\ pos = Len(source)
    /\ Len(tokens) = 4
    /\ tokens[4] = EndOfInput

\* the effect of the rule tokenize selects at the cursor
SelectedEffect ==
    LET rem == remainder(source, pos)
        i == match_info(rem)
    IN  handle_pattern(patterns[i].handler, patterns[i].regex, rem)

\* C11: in tokenize the cursor never decreases; wherever a rule is selected
\* its handler advances by at least one byte (or panics), so every iteration
\* that applies a rule leaves the cursor strictly greater and the loop never
\* repeats at the same position.
C11_Progress ==
    /\ [](( InTokenize /\ ~at_eof(source, pos)
             /\ match_info(remainder(source, pos)) # 0)
          => (SelectedEffect.panic \/ SelectedEffect.advance > 0))
    /\ [][ InTokenize
           => /\ pos' >= pos
              /\ (~at_eof(source, pos) /\ status' = "running") => pos' > pos ]_vars

\* a Skip rule has been applied: the cursor moved and nothing was pushed
C11_Witness ==
    /\ lexer = "lexer_rs" /\ status = "running"
    /\ pos > 0
    /\ tokens = << >>
    /\ ~at_eof(source, pos)

\* end of the closed block comment that starts at offset p, -1 when none does
ClosedCommentEnd(s, p) ==
    LET closes == {j \in (p + 2)..(Len(s) - 2) : StartsWithAt(s, j, <<"*", "/">>)}
    IN  IF StartsWithAt(s, p, <<"/", "*">>) /\ closes # {} THEN Min(closes) + 2
        ELSE -1

\* end of the longest interleaving of whitespace and closed comments at p
RECURSIVE TriviaEnd(_, _)
TriviaEnd(s, p) ==
    IF At(s, p) \in Whitespace THEN TriviaEnd(s, p + 1)
    ELSE IF ClosedCommentEnd(s, p) # -1 THEN TriviaEnd(s, ClosedCommentEnd(s, p))
    ELSE p

CommentExample ==
    <<"/", "*", " ", "a", " ", "*", "/", " ", " ", " ",
      "/", "*", " ", "b", " ", "*", "/", "x">>

\* C12: whitespace runs and closed block comments before a token are
\* consumed entirely and give no token, in any order and number.  In
\* tokenize a step at trivia pushes nothing and moves the cursor to the end
\* of the whitespace run or of the comment; in main.rs skip_trivia stops
\* exactly where the trivia ends and the call returns the token that starts
\* there.  "/* a */   /* b */x" gives one Identifier "x" in both lexers.
C12_CommentWhitespaceLaw ==
    /\ []( (InMain /\ ~StartsWithAt(input, TriviaEnd(input, position), <<"/", "*">>))
           => skip_trivia(input, position) = TriviaEnd(input, position) )
    /\ []( (lexer = "lexer_rs" /\ source = CommentExample)
           => /\ status \in {"running", "returned"}
              /\ status = "returned"
                 => tokens = <<TokV("Indentifier", <<"x">>), EndOfInput>> )
    /\ []( (lexer = "main_rs" /\ input = CommentExample)
           => /\ mstatus = "running"
              /\ token = EOF => printed = <<MText("Identifier", <<"x">>)>> )
    /\ [][ /\ (InTokenize /\ TriviaEnd(source, pos) > pos)
              => /\ tokens' = tokens
                 /\ status' = "running"
                 /\ pos' = IF At(source, pos) \in Whitespace
                           THEN RunEnd(source, pos, Whitespace)
                           ELSE ClosedCommentEnd(source, pos)
           /\ (InMain /\ ~StartsWithAt(input, TriviaEnd(input, position), <<"/", "*">>))
              => LET r == next_token(input, TriviaEnd(input, position))
                 IN  \/ r.panic /\ mstatus' = "panic"
                     \/ /\ ~r.panic
                        /\ token' = r.token
                        /\ position' = r.position
                        /\ Len(printed') <= Len(printed) + 1 ]_vars

\* main.rs has returned Identifier "x" as the first token of the example
C12_Witness ==
    /\ lexer = "main_rs"
    /\ input = CommentExample
    /\ position = Len(input)
    /\ printed = <<MText("Identifier", <<"x">>)>>

\* offset of the first double quote after offset p, Len(s) when there is none
ClosingQuote(s, p) == RunUntil(s, p + 1, {"\""})

\* C13: in tokenize, when a double quote at the cursor is followed by a run
\* of non-quote characters and a closing double quote, the step pushes one
\* String token whose payload is the text between the quotes, byte for byte,
\* and advances by the interior length plus 2 ("hi" in quotes gives hi).
C13_StringLiteral ==
    [][ (InTokenize /\ At(source, pos) = "\""
           /\ ClosingQuote(source, pos) < Len(source))
        => LET interior == Slice(source, pos + 1, ClosingQuote(source, pos))
           IN  /\ tokens' = Append(tokens, TokV("String", interior))
               /\ pos' = pos + Len(interior) + 2
               /\ status' = "running" ]_vars

\* tokenize has pushed String hi for the four bytes "hi" in quotes
C13_Witness ==
    /\ lexer = "lexer_rs"
    /\ StartsWithAt(source, 0, <<"\"", "h", "i", "\"">>)
    /\ pos = 4
    /\ tokens = <<TokV("String", <<"h", "i">>)>>

\* the code the specification gives for each escape letter
EscapeCode(e) ==
    CASE e = "n" -> 10
      [] e = "t" -> 9
      [] e = "r" -> 13
      [] e = "\\" -> 92
      [] e = "'" -> 39
      [] e = "0" -> 0

\* C14: in the main.rs lexer, next_token at a character literal with one of
\* the escapes \n, \t, \r, \\, \', \0 returns Integer with the code 10, 9,
\* 13, 92, 39, 0 and leaves the cursor just past the closing quote.
C14_MainEscapes ==
    [][ (InMain /\ At(input, position) = "'" /\ At(input, position + 1) = "\\"
           /\ At(input, position + 2) \in {"n", "t", "r", "\\", "'", "0"}
           /\ At(input, position + 3) = "'")
        => /\ token' = MInteger(EscapeCode(At(input, position + 2)))
           /\ position' = position + 4
           /\ mstatus' = "running" ]_vars

\* if (x < 10) { print x; }
Scenario ==
    <<"i", "f", " ", "(", "x", " ", "<", " ", "1", "0", ")", " ", "{", " ",
      "p", "r", "i", "n", "t", " ", "x", ";", " ", "}">>

ScenarioTokens ==
    << Tok("KeywordIf"), Tok("OpenParen"), TokV("Indentifier", <<"x">>),
       Tok("OpLess"), TokV("Integer", <<"1", "0">>), Tok("CloseParen"),
       Tok("OpenBrace"), Tok("KeywordPrint"), TokV("Indentifier", <<"x">>),
       Tok("Semicolon"), Tok("CloseBrace"), EndOfInput >>

\* C15: tokenize on "if (x < 10) { print x; }" does not fail, pushes its
\* tokens in source order with nothing for the whitespace, and returns
\* exactly KeywordIf, OpenParen, Identifier x, OpLess, Integer 10,
\* CloseParen, OpenBrace, KeywordPrint, Identifier x, Semicolon, CloseBrace,
\* EndOfInput.
C15_EndToEnd ==
    (lexer = "lexer_rs" /\ source = Scenario)
    => /\ status \in {"running", "returned"}
       /\ Len(tokens) <= Len(ScenarioTokens)
       /\ tokens = SubSeq(ScenarioTokens, 1, Len(tokens))
       /\ status = "returned" => tokens = ScenarioTokens

\* tokenize has returned on the scenario
C15_Witness ==
    /\ lexer = "lexer_rs"
    /\ source = Scenario
    /\ status = "returned"
    /\ Len(tokens) = 12

MainWordToken(run) ==
    IF ReservedKind(run) = "Indentifier" THEN MText("Identifier", run)
    ELSE MTok(ReservedKind(run))

\* C17: in the main.rs lexer, when the byte at the cursor is a letter or an
\* underscore, next_token consumes the maximal run of letters, digits and
\* underscores, returns the keyword token when the whole run is print, putc,
\* if, else or while and Identifier carrying the run otherwise, and advances
\* the cursor by exactly the length of the run.
C17_KeywordSpecialCasing ==
    [][ (InMain /\ At(input, position) \in IdentStart)
        => /\ token' = MainWordToken(IdentRunAt(input, position))
           /\ position' = position + Len(IdentRunAt(input, position))
           /\ printed' = Append(printed, token')
           /\ mstatus' = "running" ]_vars

\* next_token has returned Identifier for a run that begins with a keyword
C17_Witness ==
    /\ lexer = "main_rs"
    /\ StartsWithAt(input, 0, <<"i", "f", "0">>)
    /\ position = 3
    /\ token = MText("Identifier", <<"i", "f", "0">>)

\* C18: in the main.rs lexer every call of next_token that returns a token
\* other than EOF leaves position strictly greater than before and at most
\* the buffer length, and so the driver loop, calling next_token until EOF,
\* reaches EOF.
C18_Termination ==
    /\ [][ (InMain /\ mstatus' = "running" /\ token' # EOF)
           => (position' > position /\ position' <= Len(input)) ]_vars
    /\ (lexer = "main_rs") ~> (token = EOF)

\* only whitespace and comments lie between offset p and the end of s; a
\* comment that is never closed runs to the end of the buffer
OnlyTrivia(s, p) ==
    \/ TriviaEnd(s, p) = Len(s)
    \/ StartsWithAt(s, TriviaEnd(s, p), <<"/", "*">>)

\* C19: in the main.rs lexer, once next_token has returned EOF the next call
\* returns EOF again and leaves position unchanged; and a call returns EOF
\* only when nothing but whitespace and comments lies between the cursor and
\* the end of the buffer.
C19_EofAbsorbing ==
    InMain
    => /\ token = EOF => next_token(input, position) = Returned(EOF, position)
       /\ (~next_token(input, position).panic
             /\ next_token(input, position).token = EOF)
          => OnlyTrivia(input, position)

\* EOF has been returned after a token was printed, with trailing whitespace
\* between that token and the end of the buffer
C19_Witness ==
    /\ lexer = "main_rs" /\ mstatus = "running"
    /\ token = EOF
    /\ input = <<"x", " ">>
    /\ printed = <<MText("Identifier", <<"x">>)>>
    /\ position = Len(input)

\* C20: in the main.rs lexer no call of next_token aborts: the slice taken by
\* the call about to be made (read_string's from start to position-1,
\* read_identifier's and read_number's from start to position) has start not
\* greater than end and end not greater than the buffer length, also when
\* the opening double quote is the last byte of the buffer.
C20_NoAbort ==
    /\ lexer = "main_rs" => mstatus # "panic"
    /\ InMain
       => LET p == skip_trivia(input, position)
          IN  /\ (FirstOp(input, p) = 0 /\ match_bytes(input, p, <<"\"">>))
                 => LET r == read_string(input, p + 1)
                    IN  r.from <= r.to /\ r.to <= Len(input)
              /\ peek(input, p) \in IdentStart
                 => LET r == read_identifier(input, p)
                    IN  p <= r.position /\ r.position <= Len(input)
              /\ peek(input, p) \in Digit
                 => LET r == read_number(input, p)
                    IN  p <= r.position /\ r.position <= Len(input)

\* C21: in the main.rs lexer, when a block comment opens at the cursor and no
\* closing star-slash follows before the end of the buffer, skip_comments
\* consumes everything up to the end of the buffer and the call of next_token
\* returns EOF: nothing is printed for the comment text, not even INVALID,
\* and position equals the buffer length afterwards.
C21_UnterminatedComment ==
    /\ []( (InMain /\ StartsWithAt(input, position, <<"/", "*">>)
              /\ ClosedCommentEnd(input, position) = -1)
           => skip_comments(input, position) = Len(input) )
    /\ [][ (InMain /\ StartsWithAt(input, position, <<"/", "*">>)
              /\ ClosedCommentEnd(input, position) = -1)
           => /\ token' = EOF
              /\ position' = Len(input)
              /\ printed' = printed
              /\ mstatus' = "running" ]_vars

\* EOF has been returned for a buffer that is one unterminated comment
C21_Witness ==
    /\ lexer = "main_rs" /\ mstatus = "running"
    /\ input = <<"/", "*", " ", "a">>
    /\ token = EOF
    /\ position = Len(input)
    /\ printed = << >>

====
